---------------------------- MODULE Spec2Model ----------------------------
(***************************************************************************)
(* BLE-PKAP (jaylogue/ble-pkap): the authentication tokens of BLEPKAP.py,  *)
(* the Bluez management client of BluezManagement.py and the initiator's   *)
(* handshake of ble-pkap-initiator.py.                                     *)
(*                                                                         *)
(* Five specifications share this module:                                  *)
(*   SpecToken  the token workbench: generate / construct, encode, decode, *)
(*              verify (BLEPKAP.py);                                       *)
(*   SpecMgmt   issueRequest's receive loop fed chunk by chunk, followed   *)
(*              by readLocalOOBExtendedData (BluezManagement.py);          *)
(*   SpecAdv    decodeAdvertisingData run on buffers built element by      *)
(*              element (BluezManagement.py);                              *)
(*   Spec       the initiator's handshake, one action per callback of the  *)
(*              event loop (ble-pkap-initiator.py);                        *)
(*   SpecLive   Spec with the transport's fairness: what was started       *)
(*              signals its end.                                           *)
(*                                                                         *)
(* Python values: bytes are sequences of 0..255; a call's outcome is a     *)
(* record [kind |-> "ok", val |-> v] or [kind |-> <exception class>, ...]. *)
(***************************************************************************)
EXTENDS Integers, Sequences, FiniteSets, TLC

VARIABLES
    \* ---- token workbench (SpecToken)
    tkPc,        \* "start" | "token" | "encoded" | "decoded" | "verified" | "failed"
    tkVariant,   \* "initiator" | "responder"
    tkTok,       \* the token object at hand
    tkBuf,       \* the encoded bytes at hand
    tkErr,       \* class of the exception that ended the run, "none" otherwise
    tkMsg,       \* that exception's message, "" when it has none
    tkHist       \* what was done: origin of the token, signed confirm, key, tampering

tkVars == <<tkPc, tkVariant, tkTok, tkBuf, tkErr, tkMsg, tkHist>>

VARIABLES
    \* ---- management socket (SpecMgmt)
    mgPc,        \* "start" | "recv" (issueRequest is inside self.recv) | "done"
    mgFrames,    \* the event frames the controller answers with, in order
    mgStream,    \* their bytes not yet handed out by recv
    rcvData,     \* issueRequest's receive buffer
    mgRet,       \* what issueRequest returned
    mgOut,       \* how readLocalOOBExtendedData ended
    mgDecoded    \* decodeAdvertisingData was called

mgVars == <<mgPc, mgFrames, mgStream, rcvData, mgRet, mgOut, mgDecoded>>

VARIABLES
    \* ---- advertising data workbench (SpecAdv)
    adPc,        \* "build" | "loop" (inside decodeAdvertisingData's while) | "done"
    adParts,     \* the complete elements put into the buffer, in order
    adTail,      \* the bytes that follow them
    adI,         \* decodeAdvertisingData's read index i
    adDict,      \* decodeAdvertisingData's adElems so far
    adIters,     \* how often the loop's body was entered
    adOut        \* how decodeAdvertisingData ended

adVars == <<adPc, adParts, adTail, adI, adDict, adIters, adOut>>

VARIABLES
    \* ---- the initiator's handshake (Spec): fields of BLEPKAPInitiator, what
    \* is outstanding at the transport, and what has been called so far
    connectPending,  \* deviceObj.Connect(callback=onConnectComplete) is outstanding
    propsConnected,  \* detectServicesResolved is connected to PropertiesChanged
    pairPending,     \* number of outstanding deviceObj.Pair(callback=onPairComplete)
    loopQuit,        \* self.eventLoop.quit() was called
    uiStarted,       \* startUI ran to its end
    pkapAuthChar,    \* self.pkapAuthChar is not None
    initConfirm,     \* self.initConfirm; <<>> while the attribute is not set
    initPrivKey,     \* self.initPrivKey
    respPubKey,      \* self.respPubKey
    oobReads,        \* how often the controller was asked for its OOB data
    signals,         \* PropertiesChanged signals delivered so far
    written,         \* the bytes last written to the auth characteristic
    resp,            \* what authResponder did with the last responder token
    calls,           \* the calls made on the transport and the codec, in order
    generated,       \* the OOB read and pair each initiator token was generated from
    inRecv           \* the loop's thread is inside issueRequest's recv, for good

hsVars == <<connectPending, propsConnected, pairPending, loopQuit, uiStarted,
            pkapAuthChar, initConfirm, initPrivKey, respPubKey, oobReads,
            signals, written, resp, calls, generated, inRecv>>

vars == <<tkVars, mgVars, adVars, hsVars>>

\* what the actions of one specification leave alone
notToken == <<mgVars, adVars, hsVars>>
notMgmt == <<tkVars, adVars, hsVars>>
notAdv == <<tkVars, mgVars, hsVars>>
notHandshake == <<tkVars, mgVars, adVars>>

-----------------------------------------------------------------------------
(* Outcomes of a Python call *)

Ok(v) == [kind |-> "ok", val |-> v]
Raise(cls) == [kind |-> cls]
\* raise cls(msg)
RaiseMsg(cls, msg) == [kind |-> cls, msg |-> msg]
MessageOf(res) == IF "msg" \in DOMAIN res THEN res.msg ELSE ""
IsOk(res) == res.kind = "ok"

-----------------------------------------------------------------------------
(* bytes helpers *)

Byte == 0..255

Take(b, k) == SubSeq(b, 1, k)
Drop(b, k) == SubSeq(b, k + 1, Len(b))
\* Python slice b[lo:hi] with 0-based lo, hi >= 0 (clamped to the length)
Slice(b, lo, hi) ==
    LET h == IF hi > Len(b) THEN Len(b) ELSE hi
    IN  IF lo >= h THEN <<>> ELSE SubSeq(b, lo + 1, h)

Fill(k, v) == [i \in 1..k |-> v]

\* n >> (8 * k)
RECURSIVE ShiftBytes(_, _)
ShiftBytes(n, k) == IF k = 0 THEN n ELSE ShiftBytes(n \div 256, k - 1)

\* the k low-order base-256 digits of n, most significant first
RECURSIVE BigEndianDigits(_, _)
BigEndianDigits(n, k) ==
    IF k = 0 THEN <<>> ELSE Append(BigEndianDigits(n \div 256, k - 1), n % 256)

\* int.to_bytes(length=k, byteorder='big'): OverflowError when n does not fit
ToBytesBE(n, k) ==
    IF n < 0 \/ ShiftBytes(n, k) # 0 THEN Raise("OverflowError")
    ELSE Ok(BigEndianDigits(n, k))

\* int.from_bytes(b, byteorder='big')
RECURSIVE FromBytesBE(_)
FromBytesBE(b) ==
    IF Len(b) = 0 THEN 0
    ELSE FromBytesBE(Take(b, Len(b) - 1)) * 256 + b[Len(b)]

\* struct '<H' at 0-based offset off
U16LE(b, off) == b[off + 1] + 256 * b[off + 2]
PackU16LE(n) == <<n % 256, (n \div 256) % 256>>

-----------------------------------------------------------------------------
(* BLEPKAP.py: token layout *)

FORMAT_V1 == 1
SigIntLen == 32
RandLen == 16
ConfirmLen == 16
InitiatorTokenLen == 83
ResponderTokenLen == 67
MaxKeyId == 65535

\* InitiatorAuthToken.__init__ / ResponderAuthToken.__init__
InitiatorAuthToken(sig, rand, format, keyId) ==
    [sig |-> sig, rand |-> rand, format |-> format, keyId |-> keyId]
ResponderAuthToken(sig, format, keyId) ==
    [sig |-> sig, format |-> format, keyId |-> keyId]

\* struct.pack '!H': struct.error outside 0..65535
PackU16BE(n) ==
    IF n < 0 \/ n > MaxKeyId THEN Raise("StructError")
    ELSE Ok(<<n \div 256, n % 256>>)

\* the part "!BH32s32s" that both encoders share; arguments are evaluated
\* before struct.pack runs, so an OverflowError of to_bytes comes first
PackHeadMutKeyIdLE(format, keyId, sig) ==
    LET r == ToBytesBE(sig[1], SigIntLen)
        s == ToBytesBE(sig[2], SigIntLen)
    IN  IF ~IsOk(r) THEN r
        ELSE IF ~IsOk(s) THEN s
        ELSE IF keyId < 0 \/ keyId > MaxKeyId THEN Raise("StructError")
        ELSE Ok(<<format>> \o PackU16LE(keyId) \o r.val \o s.val)

PackHead(format, keyId, sig) ==
    LET r == ToBytesBE(sig[1], SigIntLen)
        s == ToBytesBE(sig[2], SigIntLen)
        k == PackU16BE(keyId)
    IN  IF ~IsOk(r) THEN r
        ELSE IF ~IsOk(s) THEN s
        ELSE IF ~IsOk(k) THEN k
        ELSE Ok(<<format>> \o k.val \o r.val \o s.val)

\* InitiatorAuthToken.encode without the test of rand's length: '16s' cuts
\* or zero-pads what it is given
InitiatorEncodeMutNoRandCheck(t) ==
    IF t.format # FORMAT_V1 THEN Raise("ValueError")
    ELSE LET h == PackHead(t.format, t.keyId, t.sig)
         IN  IF ~IsOk(h) THEN h
             ELSE Ok(h.val \o [i \in 1..RandLen |-> IF i <= Len(t.rand) THEN t.rand[i] ELSE 0])

\* InitiatorAuthToken.encode
InitiatorEncode(t) ==
    IF t.format # FORMAT_V1 THEN Raise("ValueError")
    ELSE IF Len(t.rand) # RandLen THEN Raise("ValueError")
    ELSE LET h == PackHead(t.format, t.keyId, t.sig)
         IN  IF ~IsOk(h) THEN h ELSE Ok(h.val \o t.rand)

\* ResponderAuthToken.encode
ResponderEncode(t) ==
    IF t.format # FORMAT_V1 THEN Raise("ValueError")
    ELSE PackHead(t.format, t.keyId, t.sig)

\* struct.unpack of the shared part, on a buffer of the right length
UnpackKeyId(b) == b[2] * 256 + b[3]
UnpackSig(b) ==
    <<FromBytesBE(SubSeq(b, 4, 3 + SigIntLen)),
      FromBytesBE(SubSeq(b, 4 + SigIntLen, 3 + 2 * SigIntLen))>>

\* InitiatorAuthToken.decode without the format test
InitiatorDecodeMutNoFormatCheck(b) ==
    IF Len(b) = 0 THEN Raise("IndexError")
    ELSE IF Len(b) # InitiatorTokenLen THEN RaiseMsg("ValueError", "Invalid auth token length")
    ELSE Ok(InitiatorAuthToken(UnpackSig(b),
                               SubSeq(b, 4 + 2 * SigIntLen, InitiatorTokenLen),
                               b[1], UnpackKeyId(b)))

\* InitiatorAuthToken.decode: encodedToken[0] is read before the length is
\* looked at, so an empty buffer ends in IndexError
InitiatorDecode(b) ==
    IF Len(b) = 0 THEN Raise("IndexError")
    ELSE IF b[1] # FORMAT_V1 THEN RaiseMsg("ValueError", "Unsupported auth token format")
    ELSE IF Len(b) # InitiatorTokenLen THEN RaiseMsg("ValueError", "Invalid auth token length")
    ELSE Ok(InitiatorAuthToken(UnpackSig(b),
                               SubSeq(b, 4 + 2 * SigIntLen, InitiatorTokenLen),
                               b[1], UnpackKeyId(b)))

\* ResponderAuthToken.decode
ResponderDecode(b) ==
    IF Len(b) = 0 THEN Raise("IndexError")
    ELSE IF b[1] # FORMAT_V1 THEN RaiseMsg("ValueError", "Unsupported auth token format")
    ELSE IF Len(b) # ResponderTokenLen THEN RaiseMsg("ValueError", "Invalid auth token length")
    ELSE Ok(ResponderAuthToken(UnpackSig(b), b[1], UnpackKeyId(b)))

-----------------------------------------------------------------------------
(* The cryptography library behind privKey.sign / pubKey.verify and the    *)
(* DER helpers.  ECDSA is computed as the library computes it, over a      *)
(* curve of 9851 points instead of P-256 (y^2 = x^3 + x + 28 over          *)
(* GF(10007), base point (2, 4582) of prime order 9851) and with a 16-bit  *)
(* digest in place of SHA-256: the algebra of signing and verifying is the *)
(* real one, the sizes are not.                                            *)

Curve == [p |-> 10007, a |-> 1, b |-> 28, n |-> 9851, G |-> <<2, 4582>>]

Infinity == <<>>

\* <<g, s, t>> with g = gcd(x, y) = s x + t y
RECURSIVE ExtGcd(_, _)
ExtGcd(x, y) ==
    IF y = 0 THEN <<x, 1, 0>>
    ELSE LET r == ExtGcd(y, x % y) IN <<r[1], r[3], r[2] - (x \div y) * r[3]>>

InvMod(x, m) == ExtGcd(x % m, m)[2] % m
MulMod(x, y, m) == ((x % m) * (y % m)) % m

PointAdd(P, Q) ==
    IF P = Infinity THEN Q
    ELSE IF Q = Infinity THEN P
    ELSE IF P[1] = Q[1] /\ (P[2] + Q[2]) % Curve.p = 0 THEN Infinity
    ELSE LET l == IF P = Q
                  THEN MulMod(3 * P[1] * P[1] + Curve.a, InvMod(2 * P[2], Curve.p), Curve.p)
                  ELSE MulMod(Q[2] - P[2], InvMod(Q[1] - P[1], Curve.p), Curve.p)
             x == (l * l - P[1] - Q[1]) % Curve.p
         IN  <<x, (MulMod(l, P[1] - x, Curve.p) - P[2]) % Curve.p>>

RECURSIVE ScalarMul(_, _)
ScalarMul(k, P) ==
    IF k = 0 THEN Infinity
    ELSE LET h == ScalarMul(k \div 2, P)
             dbl == PointAdd(h, h)
         IN  IF k % 2 = 0 THEN dbl ELSE PointAdd(dbl, P)

\* the public key of a private key
PublicKey(d) == ScalarMul(d, Curve.G)

\* hashes.SHA256 followed by ECDSA's reduction of the digest to an integer
RECURSIVE Digest(_)
Digest(msg) ==
    IF Len(msg) = 0 THEN 7
    ELSE (Digest(Take(msg, Len(msg) - 1)) * 31 + msg[Len(msg)] + 1) % 65521
HashToInt(msg) == Digest(msg) % Curve.n

\* DER: minimal big-endian content octets of a non-negative INTEGER
RECURSIVE MinBytes(_)
MinBytes(v) == IF v < 256 THEN <<v>> ELSE Append(MinBytes(v \div 256), v % 256)
DerInteger(v) ==
    LET c == IF MinBytes(v)[1] >= 128 THEN <<0>> \o MinBytes(v) ELSE MinBytes(v)
    IN  <<2, Len(c)>> \o c

\* utils.encode_dss_signature(r, s): SEQUENCE { INTEGER r, INTEGER s }
encode_dss_signature(r, s) ==
    LET body == DerInteger(r) \o DerInteger(s)
    IN  <<48, Len(body)>> \o body

\* one DER INTEGER at 1-based position pos: <<value, next position>>, <<>> if malformed
DerReadInteger(der, pos) ==
    IF pos + 1 > Len(der) \/ der[pos] # 2 THEN <<>>
    ELSE IF der[pos + 1] = 0 \/ pos + 1 + der[pos + 1] > Len(der) THEN <<>>
    ELSE <<FromBytesBE(SubSeq(der, pos + 2, pos + 1 + der[pos + 1])),
           pos + 2 + der[pos + 1]>>

\* utils.decode_dss_signature(der): Ok(<<r, s>>) or ValueError
decode_dss_signature(der) ==
    IF Len(der) < 2 \/ der[1] # 48 \/ der[2] # Len(der) - 2 THEN Raise("ValueError")
    ELSE LET r == DerReadInteger(der, 3)
         IN  IF r = <<>> THEN Raise("ValueError")
             ELSE LET s == DerReadInteger(der, r[2])
                  IN  IF s = <<>> \/ s[2] # Len(der) + 1 THEN Raise("ValueError")
                      ELSE Ok(<<r[1], s[1]>>)

\* the signature ECDSA makes with nonce k: r = x(kG) mod n, s = (e + r d) / k mod n
EcdsaRaw(d, msg, k) ==
    LET R == ScalarMul(k, Curve.G)
        r == R[1] % Curve.n
    IN  <<r, MulMod(InvMod(k, Curve.n), HashToInt(msg) + r * d, Curve.n)>>

\* the library draws nonces until r and s are both non-zero
NonceOk(d, msg, k) ==
    /\ k \in 1..(Curve.n - 1)
    /\ EcdsaRaw(d, msg, k)[1] # 0
    /\ EcdsaRaw(d, msg, k)[2] # 0

\* privKey.sign(msg, ec.ECDSA(hashes.SHA256())) with the nonce the library drew
EcdsaSign(d, msg, k) ==
    encode_dss_signature(EcdsaRaw(d, msg, k)[1], EcdsaRaw(d, msg, k)[2])

\* the verification equation on integers r, s
EcdsaCheck(Q, r, s, msg) ==
    /\ r \in 1..(Curve.n - 1)
    /\ s \in 1..(Curve.n - 1)
    /\ LET w == InvMod(s, Curve.n)
           X == PointAdd(ScalarMul(MulMod(HashToInt(msg), w, Curve.n), Curve.G),
                         ScalarMul(MulMod(r, w, Curve.n), Q))
       IN  X # Infinity /\ X[1] % Curve.n = r

\* pubKey.verify(der, msg, ec.ECDSA(hashes.SHA256())): returns None or raises
\* InvalidSignature
EcdsaVerify(Q, der, msg) ==
    LET sig == decode_dss_signature(der)
    IN  IF IsOk(sig) /\ EcdsaCheck(Q, sig.val[1], sig.val[2], msg)
        THEN Ok("None") ELSE Raise("InvalidSignature")

-----------------------------------------------------------------------------
(* BLEPKAP.py: generate and verify *)

\* verify with r and s exchanged when the signature is rebuilt
TokenVerifyMutCoversKeyId(t, confirm, pubKey) ==
    IF t.format # FORMAT_V1 THEN Raise("ValueError")
    ELSE EcdsaVerify(pubKey, encode_dss_signature(t.sig[1], t.sig[2]),
                     [confirm EXCEPT ![1] = (confirm[1] + t.keyId) % 256])

TokenVerifyMutSwapRS(t, confirm, pubKey) ==
    IF t.format # FORMAT_V1 THEN Raise("ValueError")
    ELSE EcdsaVerify(pubKey, encode_dss_signature(t.sig[2], t.sig[1]), confirm)

\* InitiatorAuthToken.verify and ResponderAuthToken.verify (the same body)
TokenVerify(t, confirm, pubKey) ==
    IF t.format # FORMAT_V1 THEN Raise("ValueError")
    ELSE EcdsaVerify(pubKey, encode_dss_signature(t.sig[1], t.sig[2]), confirm)

InitiatorVerify(t, confirm, pubKey) == TokenVerify(t, confirm, pubKey)
ResponderVerify(t, confirm, pubKey) == TokenVerify(t, confirm, pubKey)

\* InitiatorAuthToken.generate; k is the nonce the library draws
InitiatorGenerate(confirm, rand, keyId, privKey, k) ==
    IF Len(confirm) # ConfirmLen THEN Raise("ValueError")
    ELSE IF Len(rand) # RandLen THEN Raise("ValueError")
    ELSE Ok(InitiatorAuthToken(decode_dss_signature(EcdsaSign(privKey, confirm, k)).val,
                               rand, FORMAT_V1, keyId))

\* ResponderAuthToken.generate
ResponderGenerate(confirm, keyId, privKey, k) ==
    IF Len(confirm) # ConfirmLen THEN Raise("ValueError")
    ELSE Ok(ResponderAuthToken(decode_dss_signature(EcdsaSign(privKey, confirm, k)).val,
                               FORMAT_V1, keyId))

-----------------------------------------------------------------------------
(* The token workbench: the inputs the operations of BLEPKAP.py are run on *)

MaxBufLen == 84

Zero16 == Fill(16, 0)
Ones16 == Fill(16, 1)

ConfirmInputs == {Zero16, Ones16, Fill(15, 0), Fill(17, 0)}
RandInputs == {Ones16, Fill(15, 1), Fill(17, 1), <<>>}
KeyIdInputs == {0, 1, 258, 65535, 65536}
FormatInputs == {0, 1, 2}
SigInputs == {<<0, 0>>, <<1, 255>>, <<256, 65537>>, <<2147483647, 128>>}
PrivKeyInputs == {8, 12}
NonceInputs == {1, 2, 3, 4321, Curve.n - 1}
TamperKinds == {"negateS", "zeroS", "nextR", "swapRS"}

NoToken == [format |-> 0, keyId |-> 0, sig |-> <<0, 0>>]
NoHist == [origin |-> "none", src |-> NoToken, confirm |-> <<>>, priv |-> 0,
           tamper |-> "none", coded |-> FALSE, vConfirm |-> <<>>, vPub |-> Infinity]

Variants == {"initiator", "responder"}
TokenLen(v) == IF v = "initiator" THEN InitiatorTokenLen ELSE ResponderTokenLen
Encode(v, t) == IF v = "initiator" THEN InitiatorEncode(t) ELSE ResponderEncode(t)
Decode(v, b) == IF v = "initiator" THEN InitiatorDecode(b) ELSE ResponderDecode(b)
Verify(v, t, c, Q) ==
    IF v = "initiator" THEN InitiatorVerify(t, c, Q) ELSE ResponderVerify(t, c, Q)

\* a buffer of n bytes: first byte f, then the bytes of a token's encoding,
\* cut or padded with 9s
BufferOf(v, f, n) ==
    LET base == Encode(v, IF v = "initiator"
                          THEN InitiatorAuthToken(<<256, 65537>>, Ones16, FORMAT_V1, 258)
                          ELSE ResponderAuthToken(<<256, 65537>>, FORMAT_V1, 258)).val
    IN  [i \in 1..n |-> IF i = 1 THEN f ELSE IF i <= Len(base) THEN base[i] ELSE 9]

TokenInit ==
    /\ tkPc = "start"
    /\ tkVariant = "initiator"
    /\ tkTok = NoToken
    /\ tkBuf = <<>>
    /\ tkErr = "none"
    /\ tkMsg = ""
    /\ tkHist = NoHist

\* a caller builds a token field by field
Construct ==
    /\ tkPc = "start"
    /\ \E v \in Variants, f \in FormatInputs, k \in KeyIdInputs, sg \in SigInputs, rd \in RandInputs :
          /\ v = "responder" => rd = Ones16
          /\ tkVariant' = v
          /\ tkTok' = IF v = "initiator" THEN InitiatorAuthToken(sg, rd, f, k)
                      ELSE ResponderAuthToken(sg, f, k)
          /\ tkHist' = [tkHist EXCEPT !.origin = "constructed"]
    /\ tkPc' = "token"
    /\ UNCHANGED <<tkBuf, tkErr, tkMsg>>
    /\ UNCHANGED notToken

\* generate(confirm, [rand,] keyId, privKey)
Generate ==
    /\ tkPc = "start"
    /\ \E v \in Variants, c \in ConfirmInputs, rd \in RandInputs, k \in KeyIdInputs,
          d \in PrivKeyInputs, nonce \in NonceInputs :
          /\ v = "responder" => rd = Ones16
          /\ NonceOk(d, c, nonce)
          /\ LET res == IF v = "initiator" THEN InitiatorGenerate(c, rd, k, d, nonce)
                        ELSE ResponderGenerate(c, k, d, nonce)
             IN  /\ tkVariant' = v
                 /\ tkPc' = IF IsOk(res) THEN "token" ELSE "generateFailed"
                 /\ tkTok' = IF IsOk(res) THEN res.val ELSE tkTok
                 /\ tkErr' = IF IsOk(res) THEN tkErr ELSE res.kind
                 /\ tkMsg' = IF IsOk(res) THEN tkMsg ELSE MessageOf(res)
                 /\ tkHist' = [tkHist EXCEPT !.origin = "generated", !.confirm = c, !.priv = d]
    /\ UNCHANGED tkBuf
    /\ UNCHANGED notToken

\* somebody between the signer and the verifier alters the (r, s) pair
Tamper ==
    /\ tkPc = "token"
    /\ tkHist.origin = "generated"
    /\ tkHist.tamper = "none"
    /\ \E how \in TamperKinds :
          LET r == tkTok.sig[1]
              s == tkTok.sig[2]
              sg == CASE how = "negateS" -> <<r, Curve.n - s>>
                      [] how = "zeroS" -> <<r, 0>>
                      [] how = "nextR" -> <<(r % (Curve.n - 1)) + 1, s>>
                      [] how = "swapRS" -> <<s, r>>
          IN  /\ sg # tkTok.sig
              /\ tkTok' = [tkTok EXCEPT !.sig = sg]
              /\ tkHist' = [tkHist EXCEPT !.tamper = how]
    /\ UNCHANGED <<tkPc, tkVariant, tkBuf, tkErr, tkMsg>>
    /\ UNCHANGED notToken

\* token.encode()
EncodeStep ==
    /\ tkPc = "token"
    /\ ~tkHist.coded
    /\ LET res == Encode(tkVariant, tkTok)
       IN  /\ tkPc' = IF IsOk(res) THEN "encoded" ELSE "encodeFailed"
           /\ tkBuf' = IF IsOk(res) THEN res.val ELSE tkBuf
           /\ tkErr' = IF IsOk(res) THEN tkErr ELSE res.kind
           /\ tkMsg' = IF IsOk(res) THEN tkMsg ELSE MessageOf(res)
    /\ tkHist' = [tkHist EXCEPT !.src = tkTok, !.coded = TRUE]
    /\ tkTok' = NoToken
    /\ UNCHANGED tkVariant
    /\ UNCHANGED notToken

\* bytes arrive from outside (the peer's characteristic value)
Receive ==
    /\ tkPc = "start"
    /\ \E v \in Variants, f \in FormatInputs, n \in 0..MaxBufLen :
          /\ tkVariant' = v
          /\ tkBuf' = BufferOf(v, f, n)
    /\ tkPc' = "encoded"
    /\ tkHist' = [tkHist EXCEPT !.origin = "received"]
    /\ UNCHANGED <<tkTok, tkErr, tkMsg>>
    /\ UNCHANGED notToken

\* decode(encodedToken)
DecodeStep ==
    /\ tkPc = "encoded"
    /\ LET res == Decode(tkVariant, tkBuf)
       IN  /\ tkPc' = IF IsOk(res) THEN "decoded" ELSE "decodeFailed"
           /\ tkTok' = IF IsOk(res) THEN res.val ELSE tkTok
           /\ tkErr' = IF IsOk(res) THEN tkErr ELSE res.kind
           /\ tkMsg' = IF IsOk(res) THEN tkMsg ELSE MessageOf(res)
    /\ UNCHANGED <<tkVariant, tkBuf, tkHist>>
    /\ UNCHANGED notToken

\* token.verify(confirm, pubKey)
VerifyStep ==
    /\ tkPc \in {"token", "decoded"}
    /\ tkHist.origin = "generated"
    /\ \E c \in {x \in ConfirmInputs : Len(x) = ConfirmLen}, d \in PrivKeyInputs :
          LET res == Verify(tkVariant, tkTok, c, PublicKey(d))
          IN  /\ tkPc' = IF IsOk(res) THEN "verified" ELSE "verifyFailed"
              /\ tkErr' = IF IsOk(res) THEN tkErr ELSE res.kind
              /\ tkMsg' = IF IsOk(res) THEN tkMsg ELSE MessageOf(res)
              /\ tkHist' = [tkHist EXCEPT !.vConfirm = c, !.vPub = PublicKey(d)]
    /\ UNCHANGED <<tkVariant, tkTok, tkBuf>>
    /\ UNCHANGED notToken

TokenNext ==
    \/ Construct
    \/ Generate
    \/ Tamper
    \/ EncodeStep
    \/ Receive
    \/ DecodeStep
    \/ VerifyStep


-----------------------------------------------------------------------------
(* Claims about the tokens (checked under SpecToken) *)

ValidToken(v, t) ==
    /\ t.format = FORMAT_V1
    /\ t.keyId \in 0..MaxKeyId
    /\ t.sig[1] >= 0 /\ t.sig[2] >= 0
    /\ v = "initiator" => Len(t.rand) = RandLen

\* the run went through encode() and then decode()
WentThroughCodec == tkHist.coded /\ tkPc \in {"decoded", "verified", "verifyFailed"}

\* C5: round trip. For every valid initiator token and every valid responder
\* token t, encode(t) succeeds, decode of the result succeeds, and the decoded
\* token has the format, keyId, sig and (initiator) rand of t.
C5_RoundTrip ==
    (tkHist.coded /\ ValidToken(tkVariant, tkHist.src)) =>
        /\ tkPc \notin {"encodeFailed", "decodeFailed"}
        /\ tkPc = "encoded" => Len(tkBuf) = TokenLen(tkVariant)
        /\ WentThroughCodec => tkTok = tkHist.src

C5_Witness ==
    /\ tkPc = "decoded"
    /\ tkHist.coded
    /\ tkVariant = "initiator"
    /\ tkHist.src = InitiatorAuthToken(<<2147483647, 128>>, Ones16, FORMAT_V1, 258)
    /\ tkTok = tkHist.src

\* C6 (as stated): every buffer whose length is not the token's length (83 or
\* 67), the empty buffer included, makes decode fail with ValueError.
C6_LengthRejection ==
    (tkHist.origin = "received" /\ tkPc # "encoded" /\ Len(tkBuf) # TokenLen(tkVariant)) =>
        (tkPc = "decodeFailed" /\ tkErr = "ValueError")

\* C7: version rejection. decode of a buffer whose first byte is not 1 fails
\* with ValueError and leaves no token; encode of a token whose format is not
\* 1 fails with ValueError and leaves no bytes; for both token types.
C7_VersionRejection ==
    /\ (tkHist.origin = "received" /\ tkPc # "encoded" /\ Len(tkBuf) >= 1 /\ tkBuf[1] # FORMAT_V1) =>
           (tkPc = "decodeFailed" /\ tkErr = "ValueError" /\ tkTok = NoToken)
    /\ (tkHist.coded /\ tkHist.src.format # FORMAT_V1) =>
           (tkPc = "encodeFailed" /\ tkErr = "ValueError" /\ tkBuf = <<>>)

C7_Witness ==
    /\ tkPc = "decodeFailed"
    /\ tkErr = "ValueError"
    /\ Len(tkBuf) = TokenLen(tkVariant)
    /\ tkBuf[1] = 2

VerifyDone == tkPc \in {"verified", "verifyFailed"}

\* C8: signature soundness. A token made by generate(c, keyId, priv), not
\* altered, verifies against c and the public key of priv, for both token
\* types, directly and after encode and decode.
C8_SignatureSoundness ==
    (/\ VerifyDone
     /\ tkHist.tamper = "none"
     /\ tkHist.vConfirm = tkHist.confirm
     /\ tkHist.vPub = PublicKey(tkHist.priv)) => tkPc = "verified"

C8_Witness ==
    /\ tkPc = "verified"
    /\ tkVariant = "responder"
    /\ tkHist.coded
    /\ tkHist.tamper = "none"
    /\ tkHist.vConfirm = tkHist.confirm
    /\ tkHist.vPub = PublicKey(tkHist.priv)
    /\ tkTok.keyId = 258

\* the three cases of C9
C9_WrongConfirm ==
    (VerifyDone /\ tkHist.vConfirm # tkHist.confirm) =>
        (tkPc = "verifyFailed" /\ tkErr = "InvalidSignature")
C9_WrongKey ==
    (VerifyDone /\ tkHist.vPub # PublicKey(tkHist.priv)) =>
        (tkPc = "verifyFailed" /\ tkErr = "InvalidSignature")
C9_AlteredSignature ==
    (VerifyDone /\ tkHist.tamper # "none") =>
        (tkPc = "verifyFailed" /\ tkErr = "InvalidSignature")

\* C9 (as stated): verify fails with the signature error whenever the confirm
\* value differs from the signed one, the public key is not the signer's, or
\* the token's (r, s) pair was altered.
C9_SignatureRejection == C9_WrongConfirm /\ C9_WrongKey /\ C9_AlteredSignature

\* what encode asks of the token: format 1 and, initiator, 16 bytes of rand
EncodeInputOk ==
    /\ tkHist.src.format = FORMAT_V1
    /\ tkVariant = "initiator" => Len(tkHist.src.rand) = RandLen

\* the byte at place i (1 = first) of the 32-byte big-endian form of n
BigEndianByte(n, i) == ShiftBytes(n, SigIntLen - i) % 256

\* C20: encode succeeds only on a token of format 1 with, initiator, rand of
\* exactly 16 bytes, and fails with ValueError otherwise; its output has 83
\* (initiator) or 67 (responder) bytes: format, keyId in 2 bytes big-endian,
\* r and s in 32 bytes big-endian each, then (initiator) the 16 rand bytes.
C20_EncodeLayout ==
    tkHist.coded =>
        /\ ~EncodeInputOk => (tkPc = "encodeFailed" /\ tkErr = "ValueError")
        /\ tkPc # "encodeFailed" =>
              /\ EncodeInputOk
              /\ Len(tkBuf) = IF tkVariant = "initiator" THEN 83 ELSE 67
              /\ tkBuf[1] = tkHist.src.format
              /\ tkBuf[2] * 256 + tkBuf[3] = tkHist.src.keyId
              /\ \A i \in 1..32 :
                    /\ tkBuf[3 + i] = BigEndianByte(tkHist.src.sig[1], i)
                    /\ tkBuf[35 + i] = BigEndianByte(tkHist.src.sig[2], i)
              /\ tkVariant = "initiator" =>
                    \A i \in 1..16 : tkBuf[67 + i] = tkHist.src.rand[i]

C20_Witness ==
    /\ tkPc = "encoded"
    /\ tkHist.coded
    /\ tkVariant = "initiator"
    /\ tkHist.src = InitiatorAuthToken(<<2147483647, 128>>, Ones16, FORMAT_V1, 258)
    /\ tkBuf[2] = 1 /\ tkBuf[3] = 2
    /\ tkBuf[32] = 127 /\ tkBuf[35] = 255 /\ tkBuf[67] = 128

\* C21 (as stated): decode reports a buffer of the wrong length that has a
\* first byte as a length failure, whatever that byte is, and reports an
\* unsupported version only for a buffer of the right length (83 or 67)
\* whose first byte is not 1.
C21_DistinctDecodeFailures ==
    (tkHist.origin = "received" /\ tkPc \notin {"start", "encoded"} /\ Len(tkBuf) >= 1) =>
        /\ Len(tkBuf) # TokenLen(tkVariant) =>
              /\ tkPc = "decodeFailed"
              /\ tkErr = "ValueError"
              /\ tkMsg = "Invalid auth token length"
        /\ (tkPc = "decodeFailed" /\ tkMsg = "Unsupported auth token format") =>
              (Len(tkBuf) = TokenLen(tkVariant) /\ tkBuf[1] # FORMAT_V1)

\* another key id and another rand than the token at hand has
OtherKeyId == IF tkTok.keyId = 1 THEN 258 ELSE 1
OtherRand == IF tkTok.rand = Zero16 THEN Ones16 ELSE Zero16

\* the tokens that differ from the token at hand in their keyId alone or,
\* for an initiator token, in their rand alone
Relabelled ==
    {[tkTok EXCEPT !.keyId = OtherKeyId]} \cup
    (IF tkVariant = "initiator" THEN {[tkTok EXCEPT !.rand = OtherRand]} ELSE {})

\* C25: the outcome of verify depends on the token's format and (r, s), on
\* the confirm and on the public key only: a token that differs from the
\* verified one in its keyId or its rand alone ends verify the same way,
\* its signature covering neither field.
C25_VerifyIgnoresKeyIdAndRand ==
    VerifyDone =>
        \A t \in Relabelled :
            LET res == Verify(tkVariant, t, tkHist.vConfirm, tkHist.vPub)
            IN  /\ IsOk(res) <=> tkPc = "verified"
                /\ ~IsOk(res) => tkErr = res.kind

\* a generated initiator token was verified and accepted: two tokens differ
\* from it in one field
C25_Witness ==
    /\ tkPc = "verified"
    /\ tkVariant = "initiator"
    /\ tkTok.keyId = 258
    /\ tkTok.rand = Ones16
    /\ tkHist.tamper = "none"
    /\ Cardinality(Relabelled) = 2

-----------------------------------------------------------------------------
(* BluezManagement.py *)

MGMT_CMD_READ_LOCAL_OOB_DATA == 32
MGMT_CMD_READ_LOCAL_OOB_EXTENDED_DATA == 59
MGMT_EV_CMD_COMPLETE == 1
MGMT_EV_CMD_STATUS == 2
MGMT_EV_CONTROLLER_ERROR == 3
MGMT_ADDR_TYPE_LE_PUBLIC_AND_RANDOM == 6
MGMT_STATUS_SUCCESS == 0
MGMT_STATUS_BUSY == 10
MGMT_STATUS_INVALID_PARAMS == 13
MGMT_STATUS_PERMISSION_DENIED == 20
BLE_GAP_AD_TYPE_FLAGS == 1
BLE_GAP_AD_TYPE_LESC_CONFIRMATION_VALUE == 34
BLE_GAP_AD_TYPE_LESC_RANDOM_VALUE == 35
MaxRecvLen == 512
EventHeaderLen == 6

\* an OrderedDict as the sequence of its <<key, value>> items
DictHas(d, k) == \E i \in 1..Len(d) : d[i][1] = k
DictGet(d, k) == d[CHOOSE i \in 1..Len(d) : d[i][1] = k][2]
\* d[k] = v that leaves a key already present alone
DictSetMutKeepFirst(d, k, v) ==
    IF DictHas(d, k) THEN d ELSE Append(d, <<k, v>>)

\* d[k] = v: a key already present keeps its place
DictSet(d, k, v) ==
    IF DictHas(d, k)
    THEN [i \in 1..Len(d) |-> IF d[i][1] = k THEN <<k, v>> ELSE d[i]]
    ELSE Append(d, <<k, v>>)

\* decodeAdvertisingData: one run of the loop's body at index i (0-based)
\* with adElems so far; the index and the mapping it leaves, or the exception
DecodeAdvBodyMutNoLengthByte(advData, i, adElems) ==
    IF i + 2 > Len(advData) THEN Raise("StructError")
    ELSE LET elemLen == advData[i + 1]
             elemType == advData[i + 2]
         IN  IF i + elemLen + 1 > Len(advData) THEN Raise("ValueError")
             ELSE Ok([i |-> i + elemLen,
                      adElems |-> DictSet(adElems, elemType, Slice(advData, i + 2, i + elemLen + 1))])

DecodeAdvBody(advData, i, adElems) ==
    IF i + 2 > Len(advData) THEN Raise("StructError")
    ELSE LET elemLen == advData[i + 1]
             elemType == advData[i + 2]
         IN  IF i + elemLen + 1 > Len(advData) THEN Raise("ValueError")
             ELSE Ok([i |-> i + elemLen + 1,
                      adElems |-> DictSet(adElems, elemType, Slice(advData, i + 2, i + elemLen + 1))])

\* decodeAdvertisingData: the loop from index i with adElems so far
RECURSIVE DecodeAdvLoop(_, _, _)
DecodeAdvLoop(advData, i, adElems) ==
    IF ~(i < Len(advData)) THEN Ok(adElems)
    ELSE LET body == DecodeAdvBody(advData, i, adElems)
         IN  IF ~IsOk(body) THEN body
             ELSE DecodeAdvLoop(advData, body.val.i, body.val.adElems)

decodeAdvertisingData(advData) == DecodeAdvLoop(advData, 0, <<>>)

\* BluezManagementError(status)
BluezManagementError(status) == [kind |-> "BluezManagementError", status |-> status]

\* what issueRequest returns: (status, bytes) or (status, None)
Returned(status, hasData, data) == [status |-> status, hasData |-> hasData, data |-> data]
NoReturn == [status |-> -1, hasData |-> FALSE, data |-> <<>>]

\* one pass of issueRequest's loop body after recv has appended to rcvData:
\* "continue" (back to recv with the buffer as it is), "skip" (frame sliced
\* off, back to recv) or "return"
IssueRequestPass(opCode, buf) ==
    IF Len(buf) < EventHeaderLen THEN [act |-> "continue", buf |-> buf, ret |-> NoReturn]
    ELSE LET eventCode == U16LE(buf, 0)
             eventDataLen == U16LE(buf, 4)
         IN  IF Len(buf) < eventDataLen + 6
             THEN [act |-> "continue", buf |-> buf, ret |-> NoReturn]
             ELSE IF /\ (eventCode = MGMT_EV_CMD_COMPLETE \/ eventCode = MGMT_EV_CMD_STATUS)
                     /\ Len(buf) >= 9
                     /\ U16LE(buf, 6) = opCode
             THEN [act |-> "return", buf |-> buf,
                   ret |-> IF eventCode = MGMT_EV_CMD_COMPLETE
                           THEN Returned(buf[9], TRUE, Slice(buf, 9, eventDataLen + 6))
                           ELSE Returned(buf[9], FALSE, <<>>)]
             ELSE [act |-> "skip", buf |-> Slice(buf, 6 + eventDataLen, Len(buf)), ret |-> NoReturn]

\* readLocalOOBExtendedData with the length check made before the status check
ReadLocalOOBTailMutLengthFirst(ret) ==
    IF ~ret.hasData THEN [out |-> Raise("TypeError"), decoded |-> FALSE]
    ELSE IF Len(ret.data) < 3 THEN [out |-> Raise("ValueError"), decoded |-> FALSE]
    ELSE IF ret.status # MGMT_STATUS_SUCCESS
    THEN [out |-> BluezManagementError(ret.status), decoded |-> FALSE]
    ELSE IF Len(ret.data) # 3 + U16LE(ret.data, 1)
    THEN [out |-> Raise("ValueError"), decoded |-> FALSE]
    ELSE LET elems == decodeAdvertisingData(Drop(ret.data, 3))
         IN  [out |-> IF IsOk(elems) THEN Ok(<<ret.data[1], elems.val>>) ELSE elems,
              decoded |-> TRUE]

\* readLocalOOBExtendedData from the return of issueRequest on; len(None)
\* is a TypeError
ReadLocalOOBTail(ret) ==
    IF ret.status # MGMT_STATUS_SUCCESS
    THEN [out |-> BluezManagementError(ret.status), decoded |-> FALSE]
    ELSE IF ~ret.hasData THEN [out |-> Raise("TypeError"), decoded |-> FALSE]
    ELSE IF Len(ret.data) < 3 THEN [out |-> Raise("ValueError"), decoded |-> FALSE]
    ELSE IF Len(ret.data) # 3 + U16LE(ret.data, 1)
    THEN [out |-> Raise("ValueError"), decoded |-> FALSE]
    ELSE LET elems == decodeAdvertisingData(Drop(ret.data, 3))
         IN  [out |-> IF IsOk(elems) THEN Ok(<<ret.data[1], elems.val>>) ELSE elems,
              decoded |-> TRUE]

-----------------------------------------------------------------------------
(* The management socket: readLocalOOBExtendedData calls issueRequest, which *)
(* blocks in recv; recv hands out the controller's bytes in chunks           *)

MaxFrames == 2
MaxChunk == 16

Frame(code, payload) == [code |-> code, payload |-> payload]
\* a command-complete / command-status payload: opcode, status, result data
CmdPayload(op, status, data) == PackU16LE(op) \o <<status>> \o data
\* result data of READ_LOCAL_OOB_EXTENDED_DATA: address type, length, EIR data
OobResult(declaredLen, eir) ==
    <<MGMT_ADDR_TYPE_LE_PUBLIC_AND_RANDOM>> \o PackU16LE(declaredLen) \o eir
FlagsElem == <<2, BLE_GAP_AD_TYPE_FLAGS, 6>>

OurOp == MGMT_CMD_READ_LOCAL_OOB_EXTENDED_DATA

FrameInputs == {
    Frame(MGMT_EV_CMD_COMPLETE, CmdPayload(OurOp, MGMT_STATUS_SUCCESS, OobResult(3, FlagsElem))),
    Frame(MGMT_EV_CMD_COMPLETE, CmdPayload(OurOp, MGMT_STATUS_SUCCESS, OobResult(5, FlagsElem))),
    Frame(MGMT_EV_CMD_COMPLETE, CmdPayload(OurOp, MGMT_STATUS_INVALID_PARAMS, <<>>)),
    Frame(MGMT_EV_CMD_COMPLETE, CmdPayload(OurOp, 255, OobResult(0, <<>>))),
    Frame(MGMT_EV_CMD_STATUS, CmdPayload(OurOp, MGMT_STATUS_BUSY, <<>>)),
    Frame(MGMT_EV_CMD_STATUS, CmdPayload(OurOp, MGMT_STATUS_SUCCESS, <<>>)),
    Frame(MGMT_EV_CMD_COMPLETE, CmdPayload(MGMT_CMD_READ_LOCAL_OOB_DATA, MGMT_STATUS_SUCCESS, <<>>)),
    Frame(MGMT_EV_CONTROLLER_ERROR, <<1>>),
    Frame(MGMT_EV_CMD_COMPLETE, PackU16LE(OurOp)) }

\* an event frame on the wire: eventCode, controllerIndex, length, payload
FrameBytes(f) ==
    PackU16LE(f.code) \o PackU16LE(0) \o PackU16LE(Len(f.payload)) \o f.payload

RECURSIVE StreamOf(_)
StreamOf(fs) == IF Len(fs) = 0 THEN <<>> ELSE FrameBytes(fs[1]) \o StreamOf(Drop(fs, 1))

FrameSeqInputs == UNION {[1..k -> FrameInputs] : k \in 1..MaxFrames}

Min(x, y) == IF x < y THEN x ELSE y

MgmtInit ==
    /\ mgPc = "start"
    /\ mgFrames = <<>>
    /\ mgStream = <<>>
    /\ rcvData = <<>>
    /\ mgRet = NoReturn
    /\ mgOut = [kind |-> "none"]
    /\ mgDecoded = FALSE

\* readLocalOOBExtendedData is called: issueRequest sends the request and
\* enters its loop; the controller's answer is one of the frame sequences
CallReadLocalOOB ==
    /\ mgPc = "start"
    /\ \E fs \in FrameSeqInputs :
          /\ mgFrames' = fs
          /\ mgStream' = StreamOf(fs)
    /\ rcvData' = <<>>
    /\ mgPc' = "recv"
    /\ UNCHANGED <<mgRet, mgOut, mgDecoded>>
    /\ UNCHANGED notMgmt

\* self.recv returns the next n bytes; the loop body runs once; when it
\* returns, readLocalOOBExtendedData runs to its end
Recv ==
    /\ mgPc = "recv"
    /\ mgStream # <<>>
    /\ \E n \in 1..Min(Min(MaxChunk, MaxRecvLen), Len(mgStream)) :
          LET pass == IssueRequestPass(OurOp, rcvData \o Take(mgStream, n))
              tail == ReadLocalOOBTail(pass.ret)
          IN  /\ mgStream' = Drop(mgStream, n)
              /\ rcvData' = pass.buf
              /\ IF pass.act = "return"
                 THEN /\ mgPc' = "done"
                      /\ mgRet' = pass.ret
                      /\ mgOut' = tail.out
                      /\ mgDecoded' = tail.decoded
                 ELSE UNCHANGED <<mgPc, mgRet, mgOut, mgDecoded>>
    /\ UNCHANGED mgFrames
    /\ UNCHANGED notMgmt

MgmtNext ==
    \/ CallReadLocalOOB
    \/ Recv

-----------------------------------------------------------------------------
(* Claims about the management client (checked under SpecMgmt) *)

IsMatch(f) ==
    /\ f.code \in {MGMT_EV_CMD_COMPLETE, MGMT_EV_CMD_STATUS}
    /\ Len(f.payload) >= 3
    /\ U16LE(f.payload, 0) = OurOp
HasMatch(fs) == \E i \in 1..Len(fs) : IsMatch(fs[i])
FirstMatch(fs) == fs[CHOOSE i \in 1..Len(fs) : IsMatch(fs[i]) /\ \A j \in 1..(i - 1) : ~IsMatch(fs[j])]
ExpectedReturn(fs) ==
    IF FirstMatch(fs).code = MGMT_EV_CMD_COMPLETE
    THEN Returned(FirstMatch(fs).payload[3], TRUE, Drop(FirstMatch(fs).payload, 3))
    ELSE Returned(FirstMatch(fs).payload[3], FALSE, <<>>)

\* a completion or status event carries at least its opcode and status
WellFormed(fs) ==
    \A i \in 1..Len(fs) :
        fs[i].code \in {MGMT_EV_CMD_COMPLETE, MGMT_EV_CMD_STATUS} => Len(fs[i].payload) >= 3

\* C4 (as stated): however the bytes of a stream of well-formed event frames
\* are cut into recv chunks, issueRequest returns the status and result bytes
\* of the first completion or status frame that carries the request's opcode:
\* what it returns is that frame's, and once all bytes of a stream holding
\* such a frame have arrived it has returned.
C4_ChunkingIndependent ==
    WellFormed(mgFrames) =>
        /\ mgPc = "done" => (HasMatch(mgFrames) /\ mgRet = ExpectedReturn(mgFrames))
        /\ (mgPc = "recv" /\ mgStream = <<>>) => ~HasMatch(mgFrames)

\* C10: when the matched response's status is not success, whatever the
\* status and whether the event is a completion or a status event,
\* readLocalOOBExtendedData ends in BluezManagementError carrying that status,
\* without decoding advertising data and without returning a value.
C10_ManagementError ==
    (mgPc = "done" /\ mgRet.status # MGMT_STATUS_SUCCESS) =>
        (mgOut = BluezManagementError(mgRet.status) /\ ~mgDecoded)

C10_Witness ==
    /\ mgPc = "done"
    /\ ~mgRet.hasData
    /\ mgRet.status = MGMT_STATUS_BUSY
    /\ mgOut = BluezManagementError(MGMT_STATUS_BUSY)
    /\ Len(mgFrames) = 2

\* the result data issueRequest returned has the form the command documents:
\* address type, 16-bit length, and exactly that many bytes
ResultWellFormed ==
    /\ mgRet.hasData
    /\ Len(mgRet.data) >= 3
    /\ U16LE(mgRet.data, 1) = Len(mgRet.data) - 3

\* C22 (as stated): on a matched response with success status,
\* readLocalOOBExtendedData returns (address type, elements) only for result
\* data of at least 3 bytes whose declared length is the number of bytes
\* behind it, the elements being the decoding of those bytes; every other
\* success response, a status event without result data included, ends in
\* ValueError.
C22_SuccessResponseFormat ==
    (mgPc = "done" /\ mgRet.status = MGMT_STATUS_SUCCESS) =>
        /\ IsOk(mgOut) =>
              /\ ResultWellFormed
              /\ IsOk(decodeAdvertisingData(Drop(mgRet.data, 3)))
              /\ mgOut.val = <<mgRet.data[1], decodeAdvertisingData(Drop(mgRet.data, 3)).val>>
        /\ ~ResultWellFormed => mgOut = Raise("ValueError")

\* C23 (as stated): issueRequest returns only on a completion or status
\* frame that holds its opcode and status itself: when it has returned, the
\* frame at the front of the receive buffer, the one it took them from,
\* declares at least 3 payload bytes.
C23_ShortFrameNeverMatches ==
    mgPc = "done" =>
        /\ U16LE(rcvData, 0) \in {MGMT_EV_CMD_COMPLETE, MGMT_EV_CMD_STATUS}
        /\ U16LE(rcvData, 4) >= 3

-----------------------------------------------------------------------------
(* The advertising data workbench: decodeAdvertisingData is run on a buffer *)
(* made of complete elements followed by a tail                             *)

MaxElems == 3

AdElement(type, value) == [type |-> type, value |-> value]
\* an element on the wire: length (type and value), type, value
AdElementBytes(e) == <<Len(e.value) + 1, e.type>> \o e.value

AdElementInputs == {
    AdElement(BLE_GAP_AD_TYPE_FLAGS, <<6>>),
    AdElement(BLE_GAP_AD_TYPE_FLAGS, <<7, 8>>),
    AdElement(BLE_GAP_AD_TYPE_LESC_CONFIRMATION_VALUE, <<1, 2, 3>>),
    AdElement(BLE_GAP_AD_TYPE_LESC_RANDOM_VALUE, <<>>),
    AdElement(BLE_GAP_AD_TYPE_LESC_RANDOM_VALUE, <<6>>) }

\* nothing; a lone length byte; an element one byte short; a length with
\* its type and no value; a length of 0 before a complete element; two
\* lengths of 0
AdTailInputs == {<<>>, <<2>>, <<0>>, <<3, BLE_GAP_AD_TYPE_FLAGS, 6>>, <<5, BLE_GAP_AD_TYPE_FLAGS>>,
                 <<0, 3, BLE_GAP_AD_TYPE_FLAGS, 6, 7>>, <<0, 0>>}

RECURSIVE AdBytes(_)
AdBytes(es) == IF Len(es) = 0 THEN <<>> ELSE AdElementBytes(es[1]) \o AdBytes(Drop(es, 1))

\* the buffer handed to decodeAdvertisingData
AdBuffer == AdBytes(adParts) \o adTail

AdvInit ==
    /\ adPc = "build"
    /\ adParts = <<>>
    /\ adTail = <<>>
    /\ adI = 0
    /\ adDict = <<>>
    /\ adIters = 0
    /\ adOut = [kind |-> "none"]

\* the caller's buffer grows by one complete element
AddElement ==
    /\ adPc = "build"
    /\ adTail = <<>>
    /\ Len(adParts) < MaxElems
    /\ \E e \in AdElementInputs : adParts' = Append(adParts, e)
    /\ UNCHANGED <<adPc, adTail, adI, adDict, adIters, adOut>>
    /\ UNCHANGED notAdv

\* the caller's buffer ends with bytes that are no complete element
AddTail ==
    /\ adPc = "build"
    /\ adTail = <<>>
    /\ \E t \in AdTailInputs \ {<<>>} : adTail' = t
    /\ UNCHANGED <<adPc, adParts, adI, adDict, adIters, adOut>>
    /\ UNCHANGED notAdv

\* decodeAdvertisingData(advData) is called: adElems = OrderedDict(), i = 0
DecodeAdv ==
    /\ adPc = "build"
    /\ adPc' = "loop"
    /\ adI' = 0
    /\ adDict' = <<>>
    /\ adIters' = 0
    /\ UNCHANGED <<adParts, adTail, adOut>>
    /\ UNCHANGED notAdv

\* the while test and, when it holds, one run of the body; the count of runs
\* is followed up to one past the buffer's length
DecodeAdvIterate ==
    /\ adPc = "loop"
    /\ adIters <= Len(AdBuffer)
    /\ IF ~(adI < Len(AdBuffer))
       THEN /\ adPc' = "done"
            /\ adOut' = Ok(adDict)
            /\ UNCHANGED <<adI, adDict, adIters>>
       ELSE LET body == DecodeAdvBody(AdBuffer, adI, adDict)
            IN  /\ adIters' = adIters + 1
                /\ IF IsOk(body)
                   THEN /\ adI' = body.val.i
                        /\ adDict' = body.val.adElems
                        /\ UNCHANGED <<adPc, adOut>>
                   ELSE /\ adPc' = "done"
                        /\ adOut' = body
                        /\ UNCHANGED <<adI, adDict>>
    /\ UNCHANGED <<adParts, adTail>>
    /\ UNCHANGED notAdv

AdvNext ==
    \/ AddElement
    \/ AddTail
    \/ DecodeAdv
    \/ DecodeAdvIterate

-----------------------------------------------------------------------------
(* Claims about decodeAdvertisingData (checked under SpecAdv) *)

\* the types of es[1..k] in the order of their first occurrence
RECURSIVE FirstTypes(_, _)
FirstTypes(es, k) ==
    IF k = 0 THEN <<>>
    ELSE IF \E j \in 1..(k - 1) : es[j].type = es[k].type THEN FirstTypes(es, k - 1)
    ELSE Append(FirstTypes(es, k - 1), es[k].type)

\* the value of the last element of type t
LastValue(es, t) ==
    es[CHOOSE i \in 1..Len(es) :
           es[i].type = t /\ \A j \in (i + 1)..Len(es) : es[j].type # t].value

\* the mapping the elements stand for: one item per type, in the order of
\* the types' first occurrence, holding the value of the last occurrence
ExpectedMapping(es) ==
    [i \in 1..Len(FirstTypes(es, Len(es))) |->
        <<FirstTypes(es, Len(es))[i], LastValue(es, FirstTypes(es, Len(es))[i])>>]

\* the tail's length byte declares more bytes than the buffer holds
TailOverruns == adTail # <<>> /\ adTail[1] + 1 > Len(adTail)

\* C11 (as stated): a buffer in which an element's declared length reads past
\* the end, a buffer ending right after a length byte included, makes
\* decodeAdvertisingData fail with ValueError; a buffer of complete elements
\* only is decoded to the mapping from each type to its value.
C11_AdvFormatError ==
    adPc = "done" =>
        /\ TailOverruns => adOut = Raise("ValueError")
        /\ adTail = <<>> => adOut = Ok(ExpectedMapping(adParts))

\* C12: when a type occurs in several elements of a buffer of complete
\* elements, the buffer is decoded, and the mapping holds for that type the
\* value of its last occurrence only, at the place of its first occurrence.
C12_LastDuplicateWins ==
    (adPc = "done" /\ adTail = <<>>) =>
        /\ IsOk(adOut)
        /\ adOut.val = ExpectedMapping(adParts)
        /\ \A i \in 1..Len(adParts) :
              (\A j \in (i + 1)..Len(adParts) : adParts[j].type # adParts[i].type) =>
                  /\ DictHas(adOut.val, adParts[i].type)
                  /\ DictGet(adOut.val, adParts[i].type) = adParts[i].value

C12_Witness ==
    /\ adPc = "done"
    /\ adParts = <<AdElement(BLE_GAP_AD_TYPE_FLAGS, <<6>>),
                   AdElement(BLE_GAP_AD_TYPE_LESC_RANDOM_VALUE, <<6>>),
                   AdElement(BLE_GAP_AD_TYPE_FLAGS, <<7, 8>>)>>
    /\ adTail = <<>>
    /\ adOut = Ok(<<<<BLE_GAP_AD_TYPE_FLAGS, <<7, 8>>>>, <<BLE_GAP_AD_TYPE_LESC_RANDOM_VALUE, <<6>>>>>>)

\* C24: decodeAdvertisingData's loop ends on every buffer: each run of the
\* body that does not fail moves the read index forward by at least 1, a
\* declared length of 0 included, and the body is entered at most
\* len(buffer) times.
C24_LoopTerminates ==
    [][/\ (adIters' # adIters /\ adPc' = "loop") => adI' >= adI + 1
       /\ adIters' <= Len(AdBuffer')]_vars

\* a buffer with a declared length of 0 in its middle was decoded to the end
C24_Witness ==
    /\ adPc = "done"
    /\ Len(adParts) >= 1
    /\ adTail = <<0, 3, BLE_GAP_AD_TYPE_FLAGS, 6, 7>>
    /\ IsOk(adOut)
    /\ adI = Len(AdBuffer)
    /\ adIters = Len(adParts) + 2

-----------------------------------------------------------------------------
(* ble-pkap-initiator.py: the handshake.  Every callback of the event loop *)
(* is one action; the methods it calls are operators on the record of the  *)
(* object's fields.                                                        *)

INITIATOR_KEY_ID == 1
RESPONDER_KEY_ID == 1
MaxSignals == 2

Self == [connectPending |-> connectPending, propsConnected |-> propsConnected,
         pairPending |-> pairPending, loopQuit |-> loopQuit, uiStarted |-> uiStarted,
         pkapAuthChar |-> pkapAuthChar, initConfirm |-> initConfirm,
         initPrivKey |-> initPrivKey, respPubKey |-> respPubKey,
         oobReads |-> oobReads, signals |-> signals, written |-> written,
         resp |-> resp, calls |-> calls, generated |-> generated, inRecv |-> inRecv]

Becomes(st) ==
    /\ connectPending' = st.connectPending
    /\ propsConnected' = st.propsConnected
    /\ pairPending' = st.pairPending
    /\ loopQuit' = st.loopQuit
    /\ uiStarted' = st.uiStarted
    /\ pkapAuthChar' = st.pkapAuthChar
    /\ initConfirm' = st.initConfirm
    /\ initPrivKey' = st.initPrivKey
    /\ respPubKey' = st.respPubKey
    /\ oobReads' = st.oobReads
    /\ signals' = st.signals
    /\ written' = st.written
    /\ resp' = st.resp
    /\ calls' = st.calls
    /\ generated' = st.generated
    /\ inRecv' = st.inRecv

\* self.eventLoop.quit()
Quit(st) == [st EXCEPT !.loopQuit = TRUE]
Call(st, what) == [st EXCEPT !.calls = Append(@, what)]

NoResp == [decoded |-> FALSE, keyId |-> -1, verifyTried |-> FALSE, started |-> FALSE,
           vConfirm |-> <<>>, vWritten |-> <<>>]

\* startUI: uiOk is whether the LED and button characteristics answer
StartUI(st, uiOk) ==
    IF uiOk THEN [Call(st, "startUI") EXCEPT !.uiStarted = TRUE]
    ELSE Quit(Call(st, "startUI"))

\* pairDevice: paired is what reading deviceObj.Paired gives
PairDevice(st, paired, uiOk) ==
    IF paired = "error" THEN Quit(st)
    ELSE IF paired = "false" THEN [Call(st, "Pair") EXCEPT !.pairPending = @ + 1]
    ELSE StartUI(st, uiOk)

\* getBluezLocalOOBData from issueRequest's return on; a missing element is
\* a KeyError
GetBluezLocalOOBData(ret) ==
    LET r == ReadLocalOOBTail(ret).out
    IN  IF ~IsOk(r) THEN r
        ELSE IF ~DictHas(r.val[2], BLE_GAP_AD_TYPE_LESC_CONFIRMATION_VALUE) THEN Raise("KeyError")
        ELSE IF ~DictHas(r.val[2], BLE_GAP_AD_TYPE_LESC_RANDOM_VALUE) THEN Raise("KeyError")
        ELSE Ok(<<DictGet(r.val[2], BLE_GAP_AD_TYPE_LESC_CONFIRMATION_VALUE),
                  DictGet(r.val[2], BLE_GAP_AD_TYPE_LESC_RANDOM_VALUE)>>)

\* sendInitiatorAuthToken that keeps the OOB pair of its first read and
\* uses it again instead of reading
SendInitiatorAuthTokenMutCachedOOB(st, in) ==
    IF ~in.charFound THEN Quit(Call([st EXCEPT !.pkapAuthChar = FALSE], "charNotFound"))
    ELSE
    LET cached == st.generated # <<>>
        s1 == IF cached THEN [st EXCEPT !.pkapAuthChar = TRUE]
              ELSE [Call(st, "readLocalOOB") EXCEPT !.pkapAuthChar = TRUE, !.oobReads = @ + 1]
        oob == IF cached
               THEN Ok(<<st.generated[1].confirm, st.generated[1].rand>>)
               ELSE GetBluezLocalOOBData(in.oobRet)
    IN  IF ~cached /\ in.oobRet = NoReturn THEN [s1 EXCEPT !.inRecv = TRUE]
        ELSE IF ~IsOk(oob) THEN Quit(Call(s1, "readLocalOOBFailed"))
        ELSE
        LET s2 == [s1 EXCEPT !.initConfirm = oob.val[1]]
            tok == InitiatorGenerate(oob.val[1], oob.val[2], INITIATOR_KEY_ID,
                                     st.initPrivKey, in.nonce)
            s3 == [s2 EXCEPT !.generated =
                       Append(@, [read |-> s1.oobReads, confirm |-> oob.val[1], rand |-> oob.val[2]])]
        IN  IF ~IsOk(tok) THEN Quit(Call(s2, "generateFailed"))
            ELSE IF ~IsOk(InitiatorEncode(tok.val)) THEN Quit(Call(s3, "encodeFailed"))
            ELSE IF ~in.writeOk THEN Quit(Call(s3, "WriteValueFailed"))
            ELSE PairDevice([Call(s3, "WriteValue") EXCEPT
                                !.written = InitiatorEncode(tok.val).val],
                            in.paired, in.uiOk)

\* sendInitiatorAuthToken.  in: charFound (getCharacteristicObj found the
\* characteristic), oobRet (the controller's answer; NoReturn when
\* issueRequest stays in recv), nonce, writeOk (WriteValue succeeded),
\* paired, uiOk
SendInitiatorAuthToken(st, in) ==
    IF ~in.charFound THEN Quit(Call([st EXCEPT !.pkapAuthChar = FALSE], "charNotFound"))
    ELSE
    LET s1 == [Call(st, "readLocalOOB") EXCEPT !.pkapAuthChar = TRUE, !.oobReads = @ + 1]
        oob == GetBluezLocalOOBData(in.oobRet)
    IN  IF in.oobRet = NoReturn THEN [s1 EXCEPT !.inRecv = TRUE]
        ELSE IF ~IsOk(oob) THEN Quit(Call(s1, "readLocalOOBFailed"))
        ELSE
        LET s2 == [s1 EXCEPT !.initConfirm = oob.val[1]]
            tok == InitiatorGenerate(oob.val[1], oob.val[2], INITIATOR_KEY_ID,
                                     st.initPrivKey, in.nonce)
            s3 == [s2 EXCEPT !.generated =
                       Append(@, [read |-> s1.oobReads, confirm |-> oob.val[1], rand |-> oob.val[2]])]
        IN  IF ~IsOk(tok) THEN Quit(Call(s2, "generateFailed"))
            ELSE IF ~IsOk(InitiatorEncode(tok.val)) THEN Quit(Call(s3, "encodeFailed"))
            ELSE IF ~in.writeOk THEN Quit(Call(s3, "WriteValueFailed"))
            ELSE PairDevice([Call(s3, "WriteValue") EXCEPT
                                !.written = InitiatorEncode(tok.val).val],
                            in.paired, in.uiOk)

\* waitServicesResolved.  resolved is what reading deviceObj.ServicesResolved
\* gives
WaitServicesResolved(st, resolved, paired, uiOk) ==
    LET s1 == [st EXCEPT !.propsConnected = TRUE]
    IN  IF resolved = "error" THEN Quit(s1)
        ELSE IF resolved = "false" THEN s1
        ELSE PairDevice([s1 EXCEPT !.propsConnected = FALSE], paired, uiOk)

\* authResponder that verifies against an all-zero confirm value instead of
\* self.initConfirm
AuthResponderMutZeroConfirm(st, in) ==
    IF ~st.pkapAuthChar THEN Quit(st)
    ELSE IF ~in.readOk THEN Quit(Call(st, "ReadValueFailed"))
    ELSE
    LET s1 == Call(Call(st, "ReadValue"), "decode")
        tok == ResponderDecode(in.buf)
    IN  IF ~IsOk(tok) THEN Quit([s1 EXCEPT !.resp = NoResp])
        ELSE
        LET s2 == [s1 EXCEPT !.resp = [NoResp EXCEPT !.decoded = TRUE, !.keyId = tok.val.keyId]]
        IN  IF tok.val.keyId # RESPONDER_KEY_ID THEN Quit(s2)
            ELSE
            LET s3 == [Call(s2, "verify") EXCEPT !.resp.verifyTried = TRUE,
                                                 !.resp.vConfirm = Zero16,
                                                 !.resp.vWritten = st.written]
            IN  IF ~IsOk(ResponderVerify(tok.val, Zero16, st.respPubKey))
                THEN Quit(s3)
                ELSE StartUI([Call(s3, "verified") EXCEPT !.resp.started = TRUE], in.uiOk)

\* authResponder without the test of the key id
AuthResponderMutNoKeyIdCheck(st, in) ==
    IF ~st.pkapAuthChar THEN Quit(st)
    ELSE IF ~in.readOk THEN Quit(Call(st, "ReadValueFailed"))
    ELSE
    LET s1 == Call(Call(st, "ReadValue"), "decode")
        tok == ResponderDecode(in.buf)
    IN  IF ~IsOk(tok) THEN Quit([s1 EXCEPT !.resp = NoResp])
        ELSE
        LET s2 == [s1 EXCEPT !.resp = [NoResp EXCEPT !.decoded = TRUE, !.keyId = tok.val.keyId]]
        IN  IF st.initConfirm = <<>> THEN Quit(s2)
            ELSE
            LET s3 == [Call(s2, "verify") EXCEPT !.resp.verifyTried = TRUE,
                                                 !.resp.vConfirm = st.initConfirm,
                                                 !.resp.vWritten = st.written]
            IN  IF ~IsOk(ResponderVerify(tok.val, st.initConfirm, st.respPubKey))
                THEN Quit(s3)
                ELSE StartUI([Call(s3, "verified") EXCEPT !.resp.started = TRUE], in.uiOk)

\* authResponder.  in: readOk (ReadValue succeeded), buf (the bytes read), uiOk
AuthResponder(st, in) ==
    IF ~st.pkapAuthChar THEN Quit(st)
    ELSE IF ~in.readOk THEN Quit(Call(st, "ReadValueFailed"))
    ELSE
    LET s1 == Call(Call(st, "ReadValue"), "decode")
        tok == ResponderDecode(in.buf)
    IN  IF ~IsOk(tok) THEN Quit([s1 EXCEPT !.resp = NoResp])
        ELSE
        LET s2 == [s1 EXCEPT !.resp = [NoResp EXCEPT !.decoded = TRUE, !.keyId = tok.val.keyId]]
        IN  IF tok.val.keyId # RESPONDER_KEY_ID THEN Quit(s2)
            ELSE IF st.initConfirm = <<>> THEN Quit(s2)
            ELSE
            LET s3 == [Call(s2, "verify") EXCEPT !.resp.verifyTried = TRUE,
                                                 !.resp.vConfirm = st.initConfirm,
                                                 !.resp.vWritten = st.written]
            IN  IF ~IsOk(ResponderVerify(tok.val, st.initConfirm, st.respPubKey))
                THEN Quit(s3)
                ELSE StartUI([Call(s3, "verified") EXCEPT !.resp.started = TRUE], in.uiOk)

-----------------------------------------------------------------------------
(* The handshake's environment: the device, the controller, the responder *)

PropertyReads == {"false", "true", "error"}

\* the OOB data the controller generates on its k-th read
ConfirmOf(k) == Fill(ConfirmLen, k)
RandOf(k) == Fill(RandLen, 100 + k)
AdElem(type, value) == <<Len(value) + 1, type>> \o value
OobEir(confirm, rand) ==
    AdElem(BLE_GAP_AD_TYPE_LESC_CONFIRMATION_VALUE, confirm)
        \o AdElem(BLE_GAP_AD_TYPE_LESC_RANDOM_VALUE, rand)

\* what issueRequest may return on the k-th read of the local OOB data
OobReturnInputs(k) == {
    Returned(MGMT_STATUS_SUCCESS, TRUE,
             OobResult(Len(OobEir(ConfirmOf(k), RandOf(k))), OobEir(ConfirmOf(k), RandOf(k)))),
    Returned(MGMT_STATUS_BUSY, TRUE, <<>>),
    Returned(MGMT_STATUS_SUCCESS, TRUE,
             OobResult(ConfirmLen + 2, AdElem(BLE_GAP_AD_TYPE_LESC_CONFIRMATION_VALUE, ConfirmOf(k)))),
    Returned(MGMT_STATUS_SUCCESS, TRUE,
             OobResult(Len(OobEir(Fill(ConfirmLen - 1, k), RandOf(k))),
                       OobEir(Fill(ConfirmLen - 1, k), RandOf(k)))) }

\* the nonces the library may draw when the initiator or the responder signs
HandshakeNonces == {2, 4321}

\* what the responder's characteristic may hold: a token signed by some key
\* over some confirm value under some key id, well encoded or not
ResponderTokens(confirm) ==
    {ResponderGenerate(c, k, d, 2).val :
        c \in {confirm, ConfirmOf(0)} \ {<<>>}, k \in {RESPONDER_KEY_ID, 2}, d \in PrivKeyInputs}
ResponderBuffers(confirm) ==
    {ResponderEncode(t).val : t \in ResponderTokens(confirm)}
        \cup {<<>>, BufferOf("responder", 2, ResponderTokenLen),
              BufferOf("responder", FORMAT_V1, ResponderTokenLen - 1)}

SendInputs ==
    [charFound : BOOLEAN, oobRet : OobReturnInputs(oobReads + 1) \cup {NoReturn},
     nonce : HandshakeNonces,
     writeOk : BOOLEAN, paired : PropertyReads, uiOk : BOOLEAN]

AuthInputs ==
    [readOk : BOOLEAN, buf : ResponderBuffers(initConfirm), uiOk : BOOLEAN]

\* main() has loaded the keys and connectToDevice has called Connect
HandshakeInit ==
    /\ connectPending = TRUE
    /\ propsConnected = FALSE
    /\ pairPending = 0
    /\ loopQuit = FALSE
    /\ uiStarted = FALSE
    /\ pkapAuthChar = FALSE
    /\ initConfirm = <<>>
    /\ initPrivKey \in PrivKeyInputs
    /\ respPubKey \in {PublicKey(d) : d \in PrivKeyInputs}
    /\ oobReads = 0
    /\ signals = 0
    /\ written = <<>>
    /\ resp = NoResp
    /\ calls = <<>>
    /\ generated = <<>>
    /\ inRecv = FALSE

\* connectToDevice.onConnectComplete(result)
OnConnectComplete ==
    /\ connectPending
    /\ ~loopQuit /\ ~inRecv
    /\ \E ok \in BOOLEAN, resolved \in PropertyReads, paired \in PropertyReads, uiOk \in BOOLEAN :
          Becomes(IF ~ok THEN Quit([Self EXCEPT !.connectPending = FALSE])
                  ELSE WaitServicesResolved([Self EXCEPT !.connectPending = FALSE],
                                            resolved, paired, uiOk))
    /\ UNCHANGED notHandshake

\* waitServicesResolved.detectServicesResolved(interface, changedProps,
\* invalidatedProps); signals counts the ServicesResolved = True ones
DetectServicesResolved ==
    /\ propsConnected
    /\ ~loopQuit /\ ~inRecv
    /\ signals < MaxSignals
    /\ \E interface \in {"org.bluez.Device1", "org.bluez.GattService1"},
          val \in {"absent", "false", "true"}, in \in SendInputs :
          Becomes(IF interface # "org.bluez.Device1" \/ val # "true"
                  THEN Self
                  ELSE SendInitiatorAuthToken([Self EXCEPT !.signals = @ + 1], in))
    /\ UNCHANGED notHandshake

\* pairDevice.onPairComplete(result)
OnPairComplete ==
    /\ pairPending > 0
    /\ ~loopQuit /\ ~inRecv
    /\ \E ok \in BOOLEAN, in \in AuthInputs :
          Becomes(IF ~ok THEN Quit(Call([Self EXCEPT !.pairPending = @ - 1], "PairFailed"))
                  ELSE AuthResponder(Call([Self EXCEPT !.pairPending = @ - 1], "PairSucceeded"), in))
    /\ UNCHANGED notHandshake

\* the steps of the three callbacks, as the transport's fairness sees them:
\* a step of Next that clears connectPending is OnConnectComplete's, one that
\* counts a signal is DetectServicesResolved's on ServicesResolved = True,
\* one that takes a pending Pair away is OnPairComplete's
ConnectCompletes ==
    connectPending /\ ~loopQuit /\ ~inRecv /\ connectPending' = FALSE
ServicesResolvedSignalled ==
    propsConnected /\ ~loopQuit /\ ~inRecv /\ signals < MaxSignals /\ signals' = signals + 1
PairCompletes ==
    pairPending > 0 /\ ~loopQuit /\ ~inRecv /\ pairPending' = pairPending - 1

Next ==
    \/ OnConnectComplete
    \/ DetectServicesResolved
    \/ OnPairComplete

-----------------------------------------------------------------------------
(* Claims about the handshake (checked under Spec) *)

\* C1 (as stated): deviceObj.Pair is called only after the encoded initiator
\* token was written to the auth characteristic, on every path from
\* "connection established", whatever ServicesResolved reads.
C1_PairOnlyAfterWrite ==
    \A i \in 1..Len(calls) :
        calls[i] = "Pair" => \E j \in 1..(i - 1) : calls[j] = "WriteValue"

\* C2 (as stated): startUI is started only if, earlier in the run, a
\* responder token was read and decoded, its key id was the expected one and
\* verify succeeded on it.
C2_SessionOnlyAfterVerify ==
    \A i \in 1..Len(calls) :
        calls[i] = "startUI" =>
            \E j \in 1..(i - 1) :
                /\ calls[j] = "verified"
                /\ \E k \in 1..(j - 1) : calls[k] = "ReadValue"

Count(what) == Cardinality({i \in 1..Len(calls) : calls[i] = what})
Called(what) == \E i \in 1..Len(calls) : calls[i] = what

\* the ways the chain of sendInitiatorAuthToken fails
ChainFailures ==
    {"charNotFound", "readLocalOOBFailed", "generateFailed", "encodeFailed", "WriteValueFailed"}

\* C13 (as stated): when a step of the chain locate characteristic, read OOB
\* data, generate, encode, write has failed, the event loop has quit and
\* deviceObj.Pair is not invoked in that run.
C13_ChainFailureNoPair ==
    (\E i \in 1..Len(calls) : calls[i] \in ChainFailures) =>
        (loopQuit /\ ~Called("Pair"))

\* C14 (as stated): the responder characteristic is read, and the token
\* decoded and verified, only after a pairing completion that reported
\* success; when a pairing completion has reported failure the event loop has
\* quit and the responder characteristic is not read in that run.
C14_ReadOnlyAfterPairing ==
    /\ \A i \in 1..Len(calls) :
          calls[i] \in {"ReadValue", "ReadValueFailed", "decode", "verify"} =>
              \E j \in 1..(i - 1) : calls[j] = "PairSucceeded"
    /\ Called("PairFailed") =>
          (loopQuit /\ ~Called("ReadValue") /\ ~Called("ReadValueFailed"))

\* the handshake calls of a log: OOB reads, writes and reads of the auth
\* characteristic, Pair, verify
HandshakeCalls(cs) ==
    SelectSeq(cs, LAMBDA c : c \in {"readLocalOOB", "WriteValue", "WriteValueFailed", "Pair",
                                    "ReadValue", "ReadValueFailed", "verify"})

\* C15 (as stated): once the session was started or the event loop has quit,
\* no callback makes a further handshake call: no OOB read, no write, no Pair,
\* no read of the responder token, no verify.
C15_OutcomesTerminal ==
    [][(uiStarted \/ loopQuit) => HandshakeCalls(calls') = HandshakeCalls(calls)]_vars

\* C16 (as stated): in one run the local OOB data is read at most once, the
\* initiator token is written at most once and deviceObj.Pair is invoked at
\* most once, however often ServicesResolved = True is signalled.
C16_NoStepRepeated ==
    /\ Count("readLocalOOB") <= 1
    /\ Count("WriteValue") <= 1
    /\ Count("Pair") <= 1

\* C17: whenever verify is called on the responder token, the confirm value
\* passed is set, is the confirm value of an OOB read of this run, and is the
\* one signed into the initiator token written to the responder (whose rand
\* is the rand of the same read).
C17_VerifyUsesOwnConfirm ==
    resp.verifyTried =>
        /\ resp.vConfirm # <<>>
        /\ IsOk(InitiatorDecode(resp.vWritten))
        /\ IsOk(InitiatorVerify(InitiatorDecode(resp.vWritten).val, resp.vConfirm,
                                PublicKey(initPrivKey)))
        /\ \E i \in 1..Len(generated) :
              /\ generated[i].confirm = resp.vConfirm
              /\ generated[i].rand = InitiatorDecode(resp.vWritten).val.rand

C17_Witness ==
    /\ resp.verifyTried
    /\ resp.vConfirm = ConfirmOf(2)
    /\ Count("WriteValue") = 2
    /\ calls[Len(calls)] = "verify"

\* C18: every initiator token is generated from the pair that an OOB read
\* made for it returned: the reads of two tokens differ, each token's pair
\* is what its read returned, and no pair serves two tokens.
C18_FreshOobPerToken ==
    /\ Len(generated) <= Count("readLocalOOB")
    /\ \A i \in 1..Len(generated) :
          /\ generated[i].read \in 1..oobReads
          /\ generated[i].confirm = ConfirmOf(generated[i].read)
          /\ generated[i].rand = RandOf(generated[i].read)
    /\ \A i, j \in 1..Len(generated) :
          i # j => /\ generated[i].read # generated[j].read
                   /\ generated[i].confirm # generated[j].confirm
                   /\ generated[i].rand # generated[j].rand

C18_Witness ==
    /\ Len(generated) = 2
    /\ generated[1].confirm = ConfirmOf(1)
    /\ generated[2].confirm = ConfirmOf(2)
    /\ Count("WriteValue") = 2

\* C19 (as stated): when every started transport operation signals its end
\* and the controller delivers the frame that answers the request, the
\* handshake reaches the session or quits the event loop.
C19_ReachesOutcome == <>(uiStarted \/ loopQuit)

\* what does hold: the handshake reaches the session, quits the event loop,
\* or is left inside issueRequest's recv
ReachesOutcomeOrBlocks == <>(uiStarted \/ loopQuit \/ inRecv)

-----------------------------------------------------------------------------
Init == TokenInit /\ MgmtInit /\ AdvInit /\ HandshakeInit

Spec == Init /\ [][Next]_vars
SpecToken == Init /\ [][TokenNext]_vars
SpecMgmt == Init /\ [][MgmtNext]_vars
SpecAdv == Init /\ [][AdvNext]_vars

\* the handshake when every started operation signals its end: the pending
\* Connect and Pair callbacks are delivered, and so is ServicesResolved = True
SpecLive ==
    /\ Init
    /\ [][Next]_vars
    /\ WF_connectPending(ConnectCompletes)
    /\ WF_signals(ServicesResolvedSignalled)
    /\ WF_pairPending(PairCompletes)

=============================================================================
